---- MODULE Spec2Model ----
(***************************************************************************)
(* Model of the wazper HTTP handlers: the messages router                  *)
(* (src/unnamed/part_000) and the accounts router (src/routes/accounts.js).*)
(* A handler is a sequence of steps separated by its awaits; the database, *)
(* the temp directory and the WhatsApp service are shared state.           *)
(***************************************************************************)
EXTENDS Integers, Sequences, FiniteSets, TLC

VARIABLES
    accounts,       \* table accounts: id -> row, for the ids that have a row
    activity_logs,  \* table activity_logs: sequence of rows
    messages,       \* table messages: sequence of rows
    dbCalls,        \* number of statements database.query has run
    files,          \* files present in uploads/temp/
    svcLog,         \* calls issued to services/whatsapp, in issue order
    sendThrows,     \* numbers for which the service send rejects
    insertThrows,   \* numbers for which the messages INSERT rejects
    mreq,           \* messages router: the request being handled
    mpc,            \* messages router: position of the handler
    nextIdx,        \* bulk loop: index of the next recipient to send to
    inflight,       \* bulk loop: indices whose service send is pending
    logging,        \* bulk loop: indices whose messages INSERT is pending
    results,        \* bulk loop: the results array
    mresp,          \* messages router: the response sent (status 0: none yet)
    account,        \* /send, /send-media: the result of the accounts SELECT
    areq,           \* accounts router: the request being handled
    apc,            \* accounts router: position of the handler
    aresp,          \* accounts router: the response sent (status 0: none yet)
    timers,         \* pending setTimeout callbacks, by account id, oldest first
    warnings,       \* accounts router: the lines written with console.warn
    contacts,       \* table contacts: sequence of rows
    creq,           \* /contacts/bulk: the contacts field of the body
    cpc,            \* /contacts/bulk: position of the handler
    cidx,           \* /contacts/bulk: index of the entry the loop is at
    successCount,   \* /contacts/bulk: successCount
    errorCount,     \* /contacts/bulk: errorCount
    errors,         \* /contacts/bulk: the errors array
    cresp           \* /contacts/bulk: the response sent (status 0: none yet)

envvars == <<sendThrows, insertThrows>>
tables == <<accounts, activity_logs, messages>>
dbvars == <<accounts, activity_logs, messages, dbCalls>>
loopvars == <<nextIdx, inflight, logging, results>>
\* the state of /contacts/bulk and its table
cvars == <<contacts, creq, cpc, cidx, successCount, errorCount, errors, cresp>>
\* the state of the accounts router
astate == <<areq, apc, aresp, timers, warnings>>
\* the state the send routes do not touch
avars == <<astate, cvars>>
\* the state the bulk routes do not touch
othervars == <<account, astate, cvars>>
vars == <<accounts, activity_logs, messages, dbCalls, files, svcLog, sendThrows,
          insertThrows, mreq, mpc, nextIdx, inflight, logging,
          results, mresp, account, areq, apc, aresp, timers, warnings,
          contacts, creq, cpc, cidx, successCount, errorCount, errors, cresp>>

----------------------------------------------------------------------------
(* Bounds of the model *)

\* longest recipient list enumerated over the whole phone alphabet
MaxLen == 2

(* Program constants *)

\* recipients.length > 100 is rejected by /send-bulk
MaxBulk == 100
\* recipientList.length > 50 is rejected by /send-bulk-media
MaxBulkMedia == 50
\* phoneRegex: {10,15}
MinDigits == 10
MaxDigits == 15
\* errors.slice(0, 10) of /contacts/bulk
MaxErrors == 10

----------------------------------------------------------------------------
(* Values of request fields.  A field holds a name; the tables below give   *)
(* the characters of the value the name stands for.                         *)

DigitChars == {"0", "1", "2", "3", "4", "5", "6", "7", "8", "9"}

Rep(c, n) == [i \in 1..n |-> c]

\* candidate recipient numbers, by name
PhoneChars(p) ==
    CASE p = "p10"   -> <<"6", "2">> \o Rep("8", 8)
      [] p = "p15"   -> <<"6", "2">> \o Rep("1", 13)
      [] p = "p9"    -> Rep("7", 9)
      [] p = "p16"   -> Rep("3", 16)
      [] p = "pplus" -> <<"+">> \o Rep("6", 10)
      [] OTHER       -> <<>>

Phones == {"p10", "p15", "p9", "p16", "pplus"}

\* faulty variant: the pattern without its ^ anchor, /[0-9]{10,15}$/
PhoneRegexTest_Unanchored(p) ==
    LET s == PhoneChars(p) IN
    /\ Len(s) >= MinDigits
    /\ \A i \in (Len(s) - MinDigits + 1)..Len(s) : s[i] \in DigitChars

\* /^[0-9]{10,15}$/.test(num)
PhoneRegexTest(p) ==
    LET s == PhoneChars(p) IN
    /\ Len(s) >= MinDigits
    /\ Len(s) <= MaxDigits
    /\ \A i \in 1..Len(s) : s[i] \in DigitChars

ValidPhones == {p \in Phones : PhoneRegexTest(p)}

\* candidate message fields, by name: undefined, "", "  ", "hi", a non-string
Messages == {"m_undefined", "m_empty", "m_blank", "m_hi", "m_nonstring"}

MsgChars(m) ==
    CASE m = "m_blank" -> <<" ", " ">>
      [] m = "m_hi"    -> <<"h", "i">>
      [] OTHER         -> <<>>

\* JavaScript truthiness of the message field
MsgTruthy(m) == m = "m_nonstring" \/ (m \in {"m_blank", "m_hi"})

\* message.trim is not a function for a non-string
TrimThrows(m) == m = "m_nonstring"

RECURSIVE TrimLeft(_)
TrimLeft(s) == IF s # <<>> /\ Head(s) = " " THEN TrimLeft(Tail(s)) ELSE s

RECURSIVE TrimRight(_)
TrimRight(s) ==
    IF s # <<>> /\ s[Len(s)] = " " THEN TrimRight(SubSeq(s, 1, Len(s) - 1)) ELSE s

\* String.prototype.trim
Trim(s) == TrimRight(TrimLeft(s))

\* !message || !message.trim(), for a message on which trim does not throw
MsgBlank(m) == ~MsgTruthy(m) \/ Trim(MsgChars(m)) = <<>>

----------------------------------------------------------------------------
(* Responses *)

NoResp == [status |-> 0, error |-> "", invalidNumbers |-> <<>>,
           successful |-> 0, failed |-> 0, results |-> <<>>]

ErrResp(code, text) == [NoResp EXCEPT !.status = code, !.error = text]

\* the response of /contacts/bulk
NoContactsResp == [status |-> 0, error |-> "", success_count |-> 0,
                   error_count |-> 0, errors |-> <<>>]

\* no /contacts/bulk body yet
NoContacts == [kind |-> "undefined", list |-> <<>>]

IsInvalid(p) == ~PhoneRegexTest(p)

\* recipients.filter(num => !phoneRegex.test(num)): order kept
RECURSIVE InvalidNumbers(_)
InvalidNumbers(list) ==
    IF list = <<>> THEN <<>>
    ELSE IF IsInvalid(Head(list)) THEN <<Head(list)>> \o InvalidNumbers(Tail(list))
    ELSE InvalidNumbers(Tail(list))

\* results.filter(r => r.success).length
CountSuccess(rs) == Cardinality({i \in 1..Len(rs) : rs[i].success})
\* results.filter(r => !r.success).length
CountFailed(rs) == Cardinality({i \in 1..Len(rs) : ~rs[i].success})

----------------------------------------------------------------------------
(* Requests *)

\* lists of length 0..n over the phone alphabet
RECURSIVE ListsUpTo(_)
ListsUpTo(n) ==
    IF n = 0 THEN {<<>>}
    ELSE LET shorter == ListsUpTo(n - 1) IN
         shorter \cup {Append(l, p) : l \in {x \in shorter : Len(x) = n - 1}, p \in Phones}

\* lists around the two limits: all valid, or valid with an invalid last entry
LimitLengths == {MaxBulkMedia, MaxBulkMedia + 1, MaxBulk, MaxBulk + 1}
LongLists ==
    {Rep("p10", n) : n \in LimitLengths}
        \cup {Append(Rep("p10", n - 1), "p9") : n \in LimitLengths}

\* the recipients field as received: undefined, an array, a string holding the
\* JSON text of an array, of another value, or no JSON at all, or a non-array
ArrayRecipients(kind) ==
    {[kind |-> kind, list |-> l] : l \in ListsUpTo(MaxLen)}
OtherRecipients ==
    {[kind |-> k, list |-> <<>>] :
        k \in {"undefined", "json_other", "json_malformed", "nonarray"}}

\* req.file: no upload, the stored temp file, or an upload the middleware refused
\* (nothing stored, req.file undefined, the handler not run)
NoFile == "none"
TempFile == "uploads/temp/f1"
UploadError == "upload-error"

Request(route, from, to, recips, msg, sched, file) ==
    [route |-> route, fromAccountId |-> from, toNumber |-> to,
     recipients |-> recips, message |-> msg, scheduledAt |-> sched,
     file |-> file]

NoRequest == Request("none", 0, "undefined", [kind |-> "undefined", list |-> <<>>],
                     "m_undefined", FALSE, NoFile)

\* fromAccountId 0 stands for a missing (falsy) id
AccountIds == {0, 1}

SendBulkRequests ==
    {Request("send-bulk", a, "undefined", r, m, FALSE, NoFile) :
        a \in AccountIds, m \in Messages,
        r \in ArrayRecipients("array") \cup ArrayRecipients("json_array")
                \cup OtherRecipients}
    \cup {Request("send-bulk", a, "undefined", [kind |-> "array", list |-> l],
                  m, FALSE, NoFile) :
            a \in AccountIds, m \in Messages, l \in LongLists}

SendBulkMediaRequests ==
    {Request("send-bulk-media", a, "undefined", r, m, FALSE, f) :
        a \in AccountIds, m \in Messages, f \in {NoFile, TempFile},
        r \in ArrayRecipients("array") \cup ArrayRecipients("json_array")
                \cup OtherRecipients}
    \cup {Request("send-bulk-media", a, "undefined",
                  [kind |-> "json_array", list |-> l], m, FALSE, f) :
            a \in AccountIds, m \in Messages, f \in {NoFile, TempFile},
            l \in LongLists}

\* a request to the accounts router
AccountRequest(route, id, name, phone) ==
    [route |-> route, id |-> id, name |-> name, phone |-> phone]

NoAccountRequest == AccountRequest("none", 0, "", "")

----------------------------------------------------------------------------
(* Database and service *)

AccountRow(name, phone, status, qr, last) ==
    [name |-> name, phone |-> phone, status |-> status, qr_code |-> qr,
     last_connected |-> last]

MessageRow(from, to, msg, media, type) ==
    [from_account_id |-> from, to_number |-> to, message_text |-> msg,
     media_path |-> media, status |-> "sent", message_type |-> type]

\* a call of services/whatsapp: operation, account id, recipient, text or caption
SvcCall(op, id, to, text) == [op |-> op, account |-> id, to |-> to, text |-> text]

ResultEntry(to, ok) == [toNumber |-> to, success |-> ok]

----------------------------------------------------------------------------
(* POST /send-bulk *)

\* faulty variant: the limit off by one
TooManyBulk_OffByOne(n) == n > MaxBulk + 1

\* recipients.length > 100
TooManyBulk(n) == n > MaxBulk

\* the checks of /send-bulk before the loop: the response they send, or NoResp
SendBulkCheck(req) ==
    IF \/ req.fromAccountId = 0
       \/ req.recipients.kind # "array"
       \/ req.recipients.list = <<>>
    THEN ErrResp(400, "Invalid request data")
    ELSE IF ~MsgTruthy(req.message)
    THEN ErrResp(400, "Message is required")
    ELSE IF TrimThrows(req.message)
    THEN ErrResp(500, "message.trim is not a function")
    ELSE IF MsgBlank(req.message)
    THEN ErrResp(400, "Message is required")
    ELSE IF InvalidNumbers(req.recipients.list) # <<>>
    THEN [ErrResp(400, "Invalid phone numbers")
            EXCEPT !.invalidNumbers = InvalidNumbers(req.recipients.list)]
    ELSE IF TooManyBulk(Len(req.recipients.list))
    THEN ErrResp(400, "Maximum 100 recipients per bulk send")
    ELSE NoResp

\* faulty variant: the sends are started without awaiting the previous iteration
LoopReady_NoAwait == TRUE

\* the for...of loop awaits the send and the INSERT of one recipient before
\* it takes the next
LoopReady == inflight = {} /\ logging = {}

RecipientList == mreq.recipients.list

\* the arrival of a request whose checks answered `check`
Receive(req, check) ==
    /\ mpc = "idle"
    /\ mreq' = req
    /\ nextIdx' = 1
    /\ IF check.status # 0
       THEN mpc' = "done" /\ mresp' = check
       ELSE mpc' = "loop" /\ mresp' = NoResp
    /\ UNCHANGED <<inflight, logging, results, othervars>>

ReceiveSendBulk ==
    /\ mpc = "idle"
    /\ \E req \in SendBulkRequests :
        /\ Receive(req, SendBulkCheck(req))
        /\ UNCHANGED <<othervars, dbvars, files, svcLog, envvars>>

\* whatsapp.sendTextMessage / sendMediaMessage is called for the next recipient
IssueSend(op) ==
    /\ mpc = "loop"
    /\ nextIdx <= Len(RecipientList)
    /\ LoopReady
    /\ svcLog' = Append(svcLog, SvcCall(op, mreq.fromAccountId, RecipientList[nextIdx],
                                      MsgChars(mreq.message)))
    /\ inflight' = inflight \cup {nextIdx}
    /\ nextIdx' = nextIdx + 1
    /\ UNCHANGED <<othervars, dbvars, files, envvars, mreq, mpc, logging, results, mresp>>

\* faulty variant: the catch block leaves the loop instead of recording the failure
SendRejects_Break ==
    \E i \in inflight :
        /\ mpc = "loop"
        /\ RecipientList[i] \in sendThrows
        /\ inflight' = inflight \ {i}
        /\ nextIdx' = Len(RecipientList) + 1
        /\ UNCHANGED <<othervars, dbvars, files, svcLog, envvars, mreq, mpc, logging, results, mresp>>

\* the send rejects: catch (sendError) pushes a failed entry
SendRejects ==
    \E i \in inflight :
        /\ mpc = "loop"
        /\ RecipientList[i] \in sendThrows
        /\ inflight' = inflight \ {i}
        /\ results' = Append(results, ResultEntry(RecipientList[i], FALSE))
        /\ UNCHANGED <<othervars, dbvars, files, svcLog, envvars, mreq, mpc, nextIdx, logging, mresp>>

\* the send resolves: the INSERT INTO messages is issued
SendResolves ==
    \E i \in inflight :
        /\ mpc = "loop"
        /\ RecipientList[i] \notin sendThrows
        /\ inflight' = inflight \ {i}
        /\ logging' = logging \cup {i}
        /\ UNCHANGED <<othervars, dbvars, files, svcLog, envvars, mreq, mpc, nextIdx, results, mresp>>

\* faulty variant: without the inner try/catch a rejected INSERT reaches catch (sendError)
InsertSettles_NoInnerCatch(media, type) ==
    \E i \in logging :
        /\ mpc = "loop"
        /\ logging' = logging \ {i}
        /\ messages' =
             IF RecipientList[i] \in insertThrows THEN messages
             ELSE Append(messages,
                         MessageRow(mreq.fromAccountId, RecipientList[i],
                                    mreq.message, media, type))
        /\ results' = Append(results, ResultEntry(RecipientList[i],
                                                  RecipientList[i] \notin insertThrows))
        /\ dbCalls' = dbCalls + 1
        /\ UNCHANGED <<othervars, accounts, activity_logs, files, svcLog, envvars, mreq, mpc,
                       nextIdx, inflight, mresp>>

\* the INSERT settles (a rejection is caught and logged): a success entry is pushed
InsertSettles(media, type) ==
    \E i \in logging :
        /\ mpc = "loop"
        /\ logging' = logging \ {i}
        /\ messages' =
             IF RecipientList[i] \in insertThrows THEN messages
             ELSE Append(messages,
                         MessageRow(mreq.fromAccountId, RecipientList[i],
                                    mreq.message, media, type))
        /\ results' = Append(results, ResultEntry(RecipientList[i], TRUE))
        /\ dbCalls' = dbCalls + 1
        /\ UNCHANGED <<othervars, accounts, activity_logs, files, svcLog, envvars, mreq, mpc,
                       nextIdx, inflight, mresp>>

BulkResp(rs) ==
    [NoResp EXCEPT !.status = 200, !.successful = CountSuccess(rs),
                   !.failed = CountFailed(rs), !.results = rs]

SendBulkIssue == mreq.route = "send-bulk" /\ IssueSend("sendTextMessage")

SendBulkInsertSettles ==
    mreq.route = "send-bulk" /\ InsertSettles(NoFile, "text")

\* after the loop: res.json
SendBulkRespond ==
    /\ mreq.route = "send-bulk"
    /\ mpc = "loop"
    /\ nextIdx > Len(RecipientList)
    /\ LoopReady
    /\ mpc' = "done"
    /\ mresp' = BulkResp(results)
    /\ UNCHANGED <<othervars, dbvars, files, svcLog, envvars, mreq, nextIdx, inflight, logging, results>>

----------------------------------------------------------------------------
(* POST /send-bulk-media *)

\* recipientList.length > 50
TooManyBulkMedia(n) == n > MaxBulkMedia

\* typeof recipients === 'string' ? JSON.parse(recipients) : recipients
\* yields an array for an array and for the JSON text of one
ParsesToArray(recips) == recips.kind \in {"array", "json_array"}

\* the checks of /send-bulk-media before the loop: their response, or NoResp
SendBulkMediaCheck(req) ==
    IF req.fromAccountId = 0 \/ req.recipients.kind = "undefined"
    THEN ErrResp(400, "Missing required fields")
    ELSE IF req.recipients.kind = "json_malformed"
    THEN ErrResp(400, "Invalid recipients format")
    ELSE IF ~ParsesToArray(req.recipients) \/ req.recipients.list = <<>>
    THEN ErrResp(400, "Recipients must be a non-empty array")
    ELSE IF InvalidNumbers(req.recipients.list) # <<>>
    THEN [ErrResp(400, "Invalid phone numbers")
            EXCEPT !.invalidNumbers = InvalidNumbers(req.recipients.list)]
    ELSE IF TooManyBulkMedia(Len(req.recipients.list))
    THEN ErrResp(400, "Maximum 50 recipients per bulk media send")
    ELSE IF req.file = NoFile /\ ~MsgTruthy(req.message)
    THEN ErrResp(400, "Either message or media is required")
    ELSE IF req.file = NoFile /\ TrimThrows(req.message)
    THEN ErrResp(500, "message.trim is not a function")
    ELSE IF req.file = NoFile /\ MsgBlank(req.message)
    THEN ErrResp(400, "Either message or media is required")
    ELSE NoResp

\* upload.single('media') has stored the file, if any, before the handler runs
Uploaded(req) == IF req.file = TempFile THEN files \cup {req.file} ELSE files

ReceiveSendBulkMedia ==
    /\ mpc = "idle"
    /\ \E req \in SendBulkMediaRequests :
        /\ Receive(req, SendBulkMediaCheck(req))
        /\ files' = Uploaded(req)
        /\ UNCHANGED <<othervars, dbvars, svcLog, envvars>>

\* upload.single('media') fails: no file is stored, the handler is not run and
\* the framework's error handler answers
SendBulkMediaUploadFails ==
    /\ mpc = "idle"
    /\ \E req \in SendBulkMediaRequests :
        /\ req.file = NoFile
        /\ mreq' = [req EXCEPT !.file = UploadError]
        /\ mpc' = "done"
        /\ mresp' = ErrResp(500, "upload failed")
        /\ UNCHANGED <<othervars, dbvars, files, svcLog, envvars, nextIdx, inflight, logging, results>>

SendBulkMediaIssue ==
    /\ mreq.route = "send-bulk-media"
    /\ IssueSend(IF mreq.file = TempFile THEN "sendMediaMessage" ELSE "sendTextMessage")

SendBulkMediaInsertSettles ==
    /\ mreq.route = "send-bulk-media"
    /\ InsertSettles(mreq.file, IF mreq.file = TempFile THEN "media" ELSE "text")

\* after the loop, with a media file: fs.remove(mediaFile.path) is awaited
SendBulkMediaCleanup ==
    /\ mreq.route = "send-bulk-media"
    /\ mpc = "loop"
    /\ nextIdx > Len(RecipientList)
    /\ LoopReady
    /\ mreq.file = TempFile
    /\ mpc' = "cleanup"
    /\ UNCHANGED <<othervars, dbvars, files, svcLog, envvars, mreq, nextIdx, inflight, logging,
                   results, mresp>>

\* fs.remove settles (a rejection is caught and logged), then res.json
SendBulkMediaCleanupSettles ==
    \E rejects \in BOOLEAN :
        /\ mreq.route = "send-bulk-media"
        /\ mpc = "cleanup"
        /\ files' = IF rejects THEN files ELSE files \ {mreq.file}
        /\ mpc' = "done"
        /\ mresp' = BulkResp(results)
        /\ UNCHANGED <<othervars, dbvars, svcLog, envvars, mreq, nextIdx, inflight, logging, results>>

\* after the loop, without a media file: res.json
SendBulkMediaRespond ==
    /\ mreq.route = "send-bulk-media"
    /\ mpc = "loop"
    /\ nextIdx > Len(RecipientList)
    /\ LoopReady
    /\ mreq.file = NoFile
    /\ mpc' = "done"
    /\ mresp' = BulkResp(results)
    /\ UNCHANGED <<othervars, dbvars, files, svcLog, envvars, mreq, nextIdx, inflight, logging, results>>

----------------------------------------------------------------------------
(* Specification of the two bulk routes: one request, any environment *)

InitTables ==
    /\ accounts = [i \in {1} |-> AccountRow("acc", "p10", "connected", "qr", "t0")]
    /\ activity_logs = <<>>
    /\ messages = <<>>
    /\ dbCalls = 0

InitIdle ==
    /\ files = {}
    /\ svcLog = <<>>
    /\ mreq = NoRequest
    /\ mpc = "idle"
    /\ nextIdx = 1
    /\ inflight = {}
    /\ logging = {}
    /\ results = <<>>
    /\ mresp = NoResp
    /\ account = "pending"
    /\ areq = NoAccountRequest
    /\ apc = "idle"
    /\ aresp = NoResp
    /\ timers = <<>>
    /\ warnings = <<>>
    /\ contacts = <<>>
    /\ creq = NoContacts
    /\ cpc = "idle"
    /\ cidx = 1
    /\ successCount = 0
    /\ errorCount = 0
    /\ errors = <<>>
    /\ cresp = NoContactsResp

InitBulk ==
    /\ InitTables
    /\ InitIdle
    /\ sendThrows \in SUBSET ValidPhones
    /\ insertThrows \in SUBSET ValidPhones

NextBulk ==
    \/ ReceiveSendBulk
    \/ SendBulkIssue
    \/ SendRejects
    \/ SendResolves
    \/ SendBulkInsertSettles
    \/ SendBulkRespond
    \/ ReceiveSendBulkMedia
    \/ SendBulkMediaUploadFails
    \/ SendBulkMediaIssue
    \/ SendBulkMediaInsertSettles
    \/ SendBulkMediaCleanup
    \/ SendBulkMediaCleanupSettles
    \/ SendBulkMediaRespond

SpecBulk == InitBulk /\ [][NextBulk]_vars

----------------------------------------------------------------------------
(* Properties of the bulk routes *)

IsBulk == mreq.route \in {"send-bulk", "send-bulk-media"}

\* the request carries a recipient list the route reads as an array
HasList ==
    \/ mreq.route = "send-bulk" /\ mreq.recipients.kind = "array"
    \/ mreq.route = "send-bulk-media" /\ mreq.recipients.kind \in {"array", "json_array"}

\* p consists of 10 to 15 decimal digits
ConsistsOfDigits(p) == \E n \in 10..15 : PhoneChars(p) \in [1..n -> DigitChars]

BadIdx(list) == {i \in 1..Len(list) : ~ConsistsOfDigits(list[i])}

\* inv is the non-matching entries of list, each once, in list order
ListsExactly(inv, list) ==
    /\ Len(inv) = Cardinality(BadIdx(list))
    /\ \A k \in 1..Len(inv) :
          \E i \in BadIdx(list) :
              /\ inv[k] = list[i]
              /\ Cardinality({j \in BadIdx(list) : j < i}) = k - 1

\* C1: a bulk request that passes validation is answered 200 with one results
\* entry per recipient, in recipient order, successful + failed = number of
\* recipients; a send that throws gives a failed entry and every recipient,
\* also after a throwing one, has been sent to. A request answered otherwise
\* was rejected before any send.
C1_ResultsPerRecipient ==
    (IsBulk /\ mpc = "done") =>
        IF mresp.status = 200
        THEN LET n == Len(RecipientList)
                 rs == mresp.results IN
             /\ Len(rs) = n
             /\ \A i \in 1..n : rs[i].toNumber = RecipientList[i]
             /\ mresp.successful + mresp.failed = n
             /\ Len(svcLog) = n
             /\ \A i \in 1..n : svcLog[i].to = RecipientList[i]
             /\ \A i \in 1..n : RecipientList[i] \in sendThrows => ~rs[i].success
        ELSE svcLog = <<>> /\ mresp.results = <<>>

\* C1 witness: a finished request whose first send threw and whose second succeeded
C1_Witness ==
    /\ IsBulk /\ mpc = "done" /\ mresp.status = 200
    /\ Len(RecipientList) >= 2
    /\ RecipientList[1] \in sendThrows
    /\ ~mresp.results[1].success
    /\ mresp.results[2].success

\* C3 (as claimed): the temp file of a /send-bulk-media request is gone once
\* the response is sent, whatever the outcome, and still there during the loop
C3_TempFileRemoved ==
    (mreq.route = "send-bulk-media" /\ mreq.file = TempFile) =>
        /\ mpc = "done" => TempFile \notin files
        /\ mpc = "loop" => TempFile \in files

\* C4: at most one send or INSERT of a bulk request is pending, a send is
\* issued only when every earlier recipient has its results entry, and the
\* sends are issued in recipient-list order
C4_Sequential ==
    IsBulk =>
        LET pending == Cardinality(inflight) + Cardinality(logging) IN
        /\ pending <= 1
        /\ Len(svcLog) = Len(results) + pending
        /\ Len(svcLog) <= Len(RecipientList)
        /\ \A k \in 1..Len(svcLog) : svcLog[k].to = RecipientList[k]

\* C4 witness: the second send is in flight after the first recipient was finished
C4_Witness ==
    /\ IsBulk /\ inflight = {2} /\ Len(results) = 1 /\ Len(messages) = 1

\* the checks that precede the phone validation let the request through
EarlierChecksPass ==
    /\ mreq.fromAccountId # 0
    /\ mreq.file # UploadError
    /\ mreq.route = "send-bulk" => mreq.message = "m_hi"

HasInvalidRecipient == IsBulk /\ mpc # "idle" /\ HasList /\ BadIdx(RecipientList) # {}

\* C6 (as claimed): any non-matching recipient gives a 400 that lists exactly
\* the non-matching recipients, and nothing is sent or logged
C6_Original ==
    HasInvalidRecipient =>
        /\ mpc = "done"
        /\ mresp.status = 400
        /\ ListsExactly(mresp.invalidNumbers, RecipientList)
        /\ svcLog = <<>>
        /\ messages = <<>>

\* C6 (amended): any non-matching recipient gives an error response with
\* nothing sent and nothing logged; the response is the 400 listing exactly the
\* non-matching recipients when the checks before the phone validation pass
C6_AllOrNothing ==
    HasInvalidRecipient =>
        /\ mpc = "done"
        /\ mresp.status \in {400, 500}
        /\ svcLog = <<>>
        /\ messages = <<>>
        /\ EarlierChecksPass =>
              /\ mresp.status = 400
              /\ mresp.error = "Invalid phone numbers"
              /\ ListsExactly(mresp.invalidNumbers, RecipientList)

\* C6 witness: a list with a valid and an invalid number is refused with the list
C6_Witness ==
    /\ HasInvalidRecipient /\ EarlierChecksPass
    /\ \E i \in 1..Len(RecipientList) : ConsistsOfDigits(RecipientList[i])
    /\ mresp.status = 400
    /\ mresp.invalidNumbers # <<>>
    /\ Len(mresp.invalidNumbers) < Len(RecipientList)
    /\ svcLog = <<>>

BulkLimit == IF mreq.route = "send-bulk" THEN 100 ELSE 50

TooLong == IsBulk /\ mpc # "idle" /\ HasList /\ Len(RecipientList) > BulkLimit

\* C7 (as claimed): at most 100 (50) sends per request, and a longer list is
\* rejected with 400 before any send
C7_Original ==
    /\ IsBulk => Len(svcLog) <= BulkLimit
    /\ TooLong => (mpc = "done" /\ mresp.status = 400 /\ svcLog = <<>>)

\* C7 (amended): at most 100 (50) sends per request, and a longer list gets an
\* error response before any send: 400, or 500 when /send-bulk is given a
\* non-string message or the upload of /send-bulk-media is refused
C7_SendLimit ==
    /\ IsBulk => Len(svcLog) <= BulkLimit
    /\ TooLong =>
          /\ mpc = "done"
          /\ svcLog = <<>>
          /\ \/ mresp.status = 400
             \/ /\ mresp.status = 500
                /\ \/ mreq.route = "send-bulk" /\ mreq.message = "m_nonstring"
                   \/ mreq.route = "send-bulk-media" /\ mreq.file = UploadError

\* C7 witness: 101 valid recipients are refused by the limit check of /send-bulk
C7_Witness ==
    /\ mreq.route = "send-bulk" /\ mpc = "done"
    /\ Len(RecipientList) = 101
    /\ BadIdx(RecipientList) = {}
    /\ mresp.status = 400
    /\ mresp.error = "Maximum 100 recipients per bulk send"
    /\ svcLog = <<>>

----------------------------------------------------------------------------
(* POST /send *)

AccountStatuses == {"connected", "disconnected", "connecting"}

\* faulty variant: the SELECT without its status condition
SelectConnected_AnyStatus(id) ==
    IF id \in DOMAIN accounts THEN "rows" ELSE "empty"

\* SELECT * FROM accounts WHERE id = ? AND status = "connected": rows or none
SelectConnected(id) ==
    IF id \in DOMAIN accounts /\ accounts[id].status = "connected"
    THEN "rows" ELSE "empty"

ActivityRow(id, action) == [account_id |-> id, action |-> action]

SendRequests ==
    {Request("send", a, t, [kind |-> "undefined", list |-> <<>>], m, sch, NoFile) :
        a \in {0, 1, 2}, t \in {"undefined", "p10", "p9"}, m \in Messages,
        sch \in BOOLEAN}

\* !fromAccountId || !toNumber || !message
SendCheck(req) ==
    IF req.fromAccountId = 0 \/ req.toNumber = "undefined" \/ ~MsgTruthy(req.message)
    THEN ErrResp(400, "fromAccountId, toNumber, and message are required")
    ELSE NoResp

\* the request arrives; when the checks pass the accounts SELECT is issued
ReceiveSend ==
    /\ mpc = "idle"
    /\ \E req \in SendRequests :
        /\ mreq' = req
        /\ IF SendCheck(req).status # 0
           THEN mpc' = "done" /\ mresp' = SendCheck(req)
           ELSE mpc' = "query" /\ mresp' = NoResp
        /\ UNCHANGED <<dbvars, files, svcLog, envvars, loopvars, account, avars>>

\* the database runs the SELECT, or the query rejects
QueryRuns ==
    \E rejects \in BOOLEAN :
        /\ mpc = "query"
        /\ account' = IF rejects THEN "error" ELSE SelectConnected(mreq.fromAccountId)
        /\ mpc' = "queried"
        /\ dbCalls' = dbCalls + 1
        /\ UNCHANGED <<tables, files, svcLog, envvars, loopvars, mreq, mresp, avars>>

\* the handler resumes after the SELECT: 500, 400, or sendTextMessage is called
SendAfterQuery ==
    /\ mreq.route = "send"
    /\ mpc = "queried"
    /\ IF account = "error"
       THEN /\ mpc' = "done"
            /\ mresp' = ErrResp(500, "Failed to send message")
            /\ UNCHANGED svcLog
       ELSE IF account = "empty"
       THEN /\ mpc' = "done"
            /\ mresp' = ErrResp(400, "Account not found or not connected")
            /\ UNCHANGED svcLog
       ELSE /\ mpc' = "send"
            /\ svcLog' = Append(svcLog, SvcCall("sendTextMessage", mreq.fromAccountId,
                                                mreq.toNumber, MsgChars(mreq.message)))
            /\ UNCHANGED mresp
    /\ UNCHANGED <<dbvars, files, envvars, loopvars, mreq, account, avars>>

\* sendTextMessage rejects: catch (waError) rethrows, the outer catch answers 500
SendSendRejects ==
    /\ mreq.route = "send"
    /\ mpc = "send"
    /\ mreq.toNumber \in sendThrows
    /\ mpc' = "done"
    /\ mresp' = ErrResp(500, "Failed to send message")
    /\ UNCHANGED <<dbvars, files, svcLog, envvars, loopvars, mreq, account, avars>>

\* sendTextMessage resolves: the INSERT INTO activity_logs is issued
SendSendResolves ==
    /\ mreq.route = "send"
    /\ mpc = "send"
    /\ mreq.toNumber \notin sendThrows
    /\ mpc' = "log"
    /\ UNCHANGED <<dbvars, files, svcLog, envvars, loopvars, mreq, mresp, account, avars>>

\* the activity INSERT settles: 200, or 500 through both catch blocks
SendLogSettles ==
    \E rejects \in BOOLEAN :
        /\ mreq.route = "send"
        /\ mpc = "log"
        /\ mpc' = "done"
        /\ IF rejects
           THEN /\ mresp' = ErrResp(500, "Failed to send message")
                /\ UNCHANGED activity_logs
           ELSE /\ mresp' = [NoResp EXCEPT !.status = 200]
                /\ activity_logs' =
                     Append(activity_logs, ActivityRow(mreq.fromAccountId, "message_sent"))
        /\ dbCalls' = dbCalls + 1
        /\ UNCHANGED <<accounts, messages, files, svcLog, envvars, loopvars, mreq,
                       account, avars>>

----------------------------------------------------------------------------
(* POST /send-media *)

SendMediaRequests ==
    {Request("send-media", a, t, [kind |-> "undefined", list |-> <<>>], m, sch, f) :
        a \in {0, 1, 2}, t \in {"undefined", "p10", "p9"}, m \in Messages,
        sch \in BOOLEAN, f \in {NoFile, TempFile}}

\* the errors of upload.single('media') and the status of the answer to each
UploadErrors == {"LIMIT_FILE_SIZE", "File type not supported", "MulterError", "other"}
UploadErrorStatus(e) == IF e = "other" THEN 500 ELSE 400

\* upload.single('media') fails: the callback answers, next() is not called
SendMediaUploadFails ==
    /\ mpc = "idle"
    /\ \E req \in SendMediaRequests, e \in UploadErrors :
        /\ req.file = NoFile
        /\ mreq' = [req EXCEPT !.file = UploadError]
        /\ mpc' = "done"
        /\ mresp' = ErrResp(UploadErrorStatus(e), e)
        /\ UNCHANGED <<dbvars, files, svcLog, envvars, loopvars, account, avars>>

\* the synchronous checks of /send-media: a response, "throw" for the
\* TypeError of message?.trim() on a non-string, or NoResp
SendMediaCheck(req) ==
    IF req.fromAccountId = 0 \/ req.toNumber = "undefined"
    THEN ErrResp(400, "From account and to number are required")
    ELSE IF req.message # "m_undefined" /\ TrimThrows(req.message)
    THEN ErrResp(-1, "throw")
    ELSE IF MsgBlank(req.message) /\ req.file = NoFile
    THEN ErrResp(400, "Either message or media file is required")
    ELSE IF ~PhoneRegexTest(req.toNumber)
    THEN ErrResp(400, "Invalid phone number format")
    ELSE NoResp

\* the outer catch: with req.file the temp file is unlinked before the 500
OuterCatch ==
    IF mreq'.file = TempFile
    THEN mpc' = "unlink_outer" /\ mresp' = NoResp
    ELSE mpc' = "done" /\ mresp' = ErrResp(500, "Failed to send media message")

\* the request arrives with its upload stored; when the checks pass the
\* accounts SELECT is issued
ReceiveSendMedia ==
    /\ mpc = "idle"
    /\ \E req \in SendMediaRequests :
        /\ mreq' = req
        /\ files' = Uploaded(req)
        /\ IF SendMediaCheck(req).status = -1
           THEN OuterCatch
           ELSE IF SendMediaCheck(req).status # 0
           THEN mpc' = "done" /\ mresp' = SendMediaCheck(req)
           ELSE mpc' = "query" /\ mresp' = NoResp
        /\ UNCHANGED <<dbvars, svcLog, envvars, loopvars, account, avars>>

\* mediaFile && message?.trim() / mediaFile / text only
MediaSendCall(req) ==
    IF req.file = TempFile
    THEN SvcCall("sendMediaMessage", req.fromAccountId, req.toNumber,
                 Trim(MsgChars(req.message)))
    ELSE SvcCall("sendTextMessage", req.fromAccountId, req.toNumber,
                 Trim(MsgChars(req.message)))

\* the handler resumes after the SELECT: outer catch, 400, 501, or the send
SendMediaAfterQuery ==
    /\ mreq.route = "send-media"
    /\ mpc = "queried"
    /\ UNCHANGED mreq
    /\ IF account = "error"
       THEN OuterCatch /\ UNCHANGED svcLog
       ELSE IF account = "empty"
       THEN /\ mpc' = "done"
            /\ mresp' = ErrResp(400, "Account not found or not connected")
            /\ UNCHANGED svcLog
       ELSE IF mreq.scheduledAt
       THEN /\ mpc' = "done"
            /\ mresp' = ErrResp(501, "Scheduled media messages not implemented yet")
            /\ UNCHANGED svcLog
       ELSE /\ mpc' = "send"
            /\ svcLog' = Append(svcLog, MediaSendCall(mreq))
            /\ UNCHANGED mresp
    /\ UNCHANGED <<dbvars, files, envvars, loopvars, account, avars>>

\* catch (waError): with a media file the temp file is unlinked, then rethrown
InnerCatch ==
    IF mreq.file = TempFile
    THEN mpc' = "unlink_inner" /\ mresp' = NoResp
    ELSE mpc' = "done" /\ mresp' = ErrResp(500, "Failed to send media message")

\* the send rejects
SendMediaSendRejects ==
    /\ mreq.route = "send-media"
    /\ mpc = "send"
    /\ mreq.toNumber \in sendThrows
    /\ InnerCatch
    /\ UNCHANGED <<dbvars, files, svcLog, envvars, loopvars, mreq, account, avars>>

\* the send resolves: the INSERT INTO activity_logs is issued
SendMediaSendResolves ==
    /\ mreq.route = "send-media"
    /\ mpc = "send"
    /\ mreq.toNumber \notin sendThrows
    /\ mpc' = "log"
    /\ UNCHANGED <<dbvars, files, svcLog, envvars, loopvars, mreq, mresp, account, avars>>

\* the activity INSERT settles: the temp file is unlinked and 200 sent, or
\* catch (waError) is entered
SendMediaLogSettles ==
    \E rejects \in BOOLEAN :
        /\ mreq.route = "send-media"
        /\ mpc = "log"
        /\ IF rejects
           THEN InnerCatch /\ UNCHANGED activity_logs
           ELSE /\ activity_logs' =
                     Append(activity_logs,
                            ActivityRow(mreq.fromAccountId, "media_message_sent"))
                /\ IF mreq.file = TempFile
                   THEN mpc' = "unlink_ok" /\ mresp' = NoResp
                   ELSE mpc' = "done" /\ mresp' = [NoResp EXCEPT !.status = 200]
        /\ dbCalls' = dbCalls + 1
        /\ UNCHANGED <<accounts, messages, files, svcLog, envvars, loopvars, mreq,
                       account, avars>>

\* fs.unlink(path): ENOENT when the file is gone, else it removes it or rejects
Unlink(rejects) ==
    files' = IF TempFile \in files /\ ~rejects THEN files \ {TempFile} ELSE files

\* the unlink after the activity INSERT settles (a rejection is logged): 200
SendMediaUnlinkOk ==
    \E rejects \in BOOLEAN :
        /\ mpc = "unlink_ok"
        /\ Unlink(rejects)
        /\ mpc' = "done"
        /\ mresp' = [NoResp EXCEPT !.status = 200]
        /\ UNCHANGED <<dbvars, svcLog, envvars, loopvars, mreq, account, avars>>

\* the unlink of catch (waError) settles: throw waError reaches the outer
\* catch, which unlinks req.file again
SendMediaUnlinkInner ==
    \E rejects \in BOOLEAN :
        /\ mpc = "unlink_inner"
        /\ Unlink(rejects)
        /\ mpc' = "unlink_outer"
        /\ UNCHANGED <<dbvars, svcLog, envvars, loopvars, mreq, mresp, account, avars>>

\* the unlink of the outer catch settles: 500
SendMediaUnlinkOuter ==
    \E rejects \in BOOLEAN :
        /\ mpc = "unlink_outer"
        /\ Unlink(rejects)
        /\ mpc' = "done"
        /\ mresp' = ErrResp(500, "Failed to send media message")
        /\ UNCHANGED <<dbvars, svcLog, envvars, loopvars, mreq, account, avars>>

----------------------------------------------------------------------------
(* Specification of /send and /send-media: one request, any accounts table *)

\* the accounts tables a request may find: rows for some of the ids 1 and 2
\* the row of id 1 has a phone, the row of id 2 has none
InitialPhone(i) == IF i = 1 THEN "p10" ELSE ""

AccountTables ==
    {[i \in d |-> AccountRow("acc", InitialPhone(i), st[i], "qr", "t0")] :
        d \in {{}, {1}, {1, 2}}, st \in [{1, 2} -> AccountStatuses]}

InitSend ==
    /\ accounts \in AccountTables
    /\ activity_logs = <<>>
    /\ messages = <<>>
    /\ dbCalls = 0
    /\ InitIdle
    /\ sendThrows \in SUBSET {"p10"}
    /\ insertThrows = {}

NextSend ==
    \/ ReceiveSend
    \/ QueryRuns
    \/ SendAfterQuery
    \/ SendSendRejects
    \/ SendSendResolves
    \/ SendLogSettles
    \/ SendMediaUploadFails
    \/ ReceiveSendMedia
    \/ SendMediaAfterQuery
    \/ SendMediaSendRejects
    \/ SendMediaSendResolves
    \/ SendMediaLogSettles
    \/ SendMediaUnlinkOk
    \/ SendMediaUnlinkInner
    \/ SendMediaUnlinkOuter

SpecSend == InitSend /\ [][NextSend]_vars

----------------------------------------------------------------------------
(* Properties of /send and /send-media *)

IsSend == mreq.route \in {"send", "send-media"}

\* no accounts row has the request's id and status 'connected'
NoConnectedRow ==
    ~(mreq.fromAccountId \in DOMAIN accounts
        /\ accounts[mreq.fromAccountId].status = "connected")

\* C2 (as claimed): the temp file of a /send-media request is gone once the
\* response is sent, whatever the outcome
C2_TempFileRemoved ==
    (mreq.route = "send-media" /\ mreq.file = TempFile /\ mpc = "done") =>
        TempFile \notin files

\* C5: a service send is called only after the request's SELECT returned a
\* row with the id and status 'connected'; when the SELECT finds no such row
\* the answer is 400 'Account not found or not connected', with no service
\* call and no activity log row
C5_SendOnlyIfConnected ==
    IsSend =>
        /\ svcLog # <<>> => (account = "rows" /\ ~NoConnectedRow)
        /\ NoConnectedRow => (svcLog = <<>> /\ activity_logs = <<>>)
        /\ (mpc = "done" /\ account \notin {"pending", "error"} /\ NoConnectedRow) =>
              /\ mresp.status = 400
              /\ mresp.error = "Account not found or not connected"
        /\ Len(svcLog) <= 1

\* C5 witness: the account row exists but is not connected, and the request
\* was refused after its SELECT
C5_Witness ==
    /\ IsSend /\ mpc = "done"
    /\ mreq.fromAccountId \in DOMAIN accounts
    /\ NoConnectedRow
    /\ account = "empty"
    /\ mresp.status = 400
    /\ mresp.error = "Account not found or not connected"
    /\ svcLog = <<>>

----------------------------------------------------------------------------
(* POST /accounts *)

\* the state of the send routes and of their environment
mstate == <<files, sendThrows, insertThrows, mreq, mpc, nextIdx, inflight,
            logging, results, mresp, account>>
\* the state the accounts router does not touch
msgvars == <<mstate, cvars>>

\* name and phone of the body; "" stands for a missing (falsy) field
CreateRequests ==
    {AccountRequest("create", 0, n, ph) : n \in {"", "bob"}, ph \in {"", "p10", "p15"}}

\* faulty variant: the lookup compares the wrong column
PhoneExists_ByName(phone) == \E i \in DOMAIN accounts : accounts[i].name = phone

\* SELECT id FROM accounts WHERE phone = ?
PhoneExists(phone) == \E i \in DOMAIN accounts : accounts[i].phone = phone

\* result.insertId of the AUTO_INCREMENT key
NextId == IF DOMAIN accounts = {} THEN 1
          ELSE (CHOOSE i \in DOMAIN accounts : \A j \in DOMAIN accounts : j <= i) + 1

\* INSERT INTO accounts (name, phone, status) VALUES (?, ?, "disconnected")
InsertAccount(name, phone) ==
    [i \in DOMAIN accounts \cup {NextId} |->
        IF i \in DOMAIN accounts THEN accounts[i]
        ELSE AccountRow(name, phone, "disconnected", "NULL", "NULL")]

\* the request arrives: 400 without a name, else the phone lookup or, without
\* a phone, the INSERT is issued
ReceiveCreate ==
    /\ apc = "idle"
    /\ \E req \in CreateRequests :
        /\ areq' = req
        /\ IF req.name = ""
           THEN apc' = "done" /\ aresp' = ErrResp(400, "Name is required")
           ELSE /\ apc' = IF req.phone # "" THEN "lookup" ELSE "insert"
                /\ aresp' = NoResp
        /\ UNCHANGED <<dbvars, svcLog, timers, msgvars, warnings>>

\* the phone lookup settles: 500, 400 for a phone that exists, or the INSERT
CreateLookupSettles ==
    \E rejects \in BOOLEAN :
        /\ areq.route = "create"
        /\ apc = "lookup"
        /\ dbCalls' = dbCalls + 1
        /\ IF rejects
           THEN apc' = "done" /\ aresp' = ErrResp(500, "query failed")
           ELSE IF PhoneExists(areq.phone)
           THEN apc' = "done" /\ aresp' = ErrResp(400, "Phone number already exists")
           ELSE apc' = "insert" /\ aresp' = NoResp
        /\ UNCHANGED <<tables, svcLog, timers, areq, msgvars, warnings>>

\* the INSERT INTO accounts settles: 500, or the activity INSERT is issued
CreateInsertSettles ==
    \E rejects \in BOOLEAN :
        /\ areq.route = "create"
        /\ apc = "insert"
        /\ dbCalls' = dbCalls + 1
        /\ IF rejects
           THEN /\ apc' = "done" /\ aresp' = ErrResp(500, "query failed")
                /\ UNCHANGED <<accounts, areq>>
           ELSE /\ accounts' = InsertAccount(areq.name, areq.phone)
                /\ areq' = [areq EXCEPT !.id = NextId]
                /\ apc' = "log" /\ aresp' = NoResp
        /\ UNCHANGED <<activity_logs, messages, svcLog, timers, msgvars, warnings>>

\* the activity INSERT settles: 500, or 201
CreateLogSettles ==
    \E rejects \in BOOLEAN :
        /\ areq.route = "create"
        /\ apc = "log"
        /\ dbCalls' = dbCalls + 1
        /\ apc' = "done"
        /\ IF rejects
           THEN aresp' = ErrResp(500, "query failed") /\ UNCHANGED activity_logs
           ELSE /\ aresp' = [NoResp EXCEPT !.status = 201]
                /\ activity_logs' = Append(activity_logs, ActivityRow(areq.id, "created"))
        /\ UNCHANGED <<accounts, messages, svcLog, timers, areq, msgvars, warnings>>

----------------------------------------------------------------------------
(* POST /accounts/:id/fresh-connect *)

FreshRequests == {AccountRequest("fresh-connect", i, "", "") : i \in {1, 2}}

\* the request arrives: SELECT * FROM accounts WHERE id = ? is issued
ReceiveFresh ==
    /\ apc = "idle"
    /\ \E req \in FreshRequests :
        /\ areq' = req
        /\ apc' = "select"
        /\ UNCHANGED <<dbvars, svcLog, timers, aresp, msgvars, warnings>>

\* the SELECT settles: 500, 404 without a row, or disconnectAccount is called
FreshSelectSettles ==
    \E rejects \in BOOLEAN :
        /\ areq.route = "fresh-connect"
        /\ apc = "select"
        /\ dbCalls' = dbCalls + 1
        /\ IF rejects
           THEN apc' = "done" /\ aresp' = ErrResp(500, "query failed") /\ UNCHANGED svcLog
           ELSE IF areq.id \notin DOMAIN accounts
           THEN apc' = "done" /\ aresp' = ErrResp(404, "Account not found")
                /\ UNCHANGED svcLog
           ELSE /\ apc' = "disconnect" /\ aresp' = NoResp
                /\ svcLog' = Append(svcLog, SvcCall("disconnectAccount", areq.id, "", <<>>))
        /\ UNCHANGED <<tables, timers, areq, msgvars, warnings>>

\* disconnectAccount settles: 500 when it rejects, else the UPDATE is issued
FreshDisconnectSettles ==
    \E rejects \in BOOLEAN :
        /\ areq.route = "fresh-connect"
        /\ apc = "disconnect"
        /\ IF rejects
           THEN apc' = "done" /\ aresp' = ErrResp(500, "disconnectAccount failed")
           ELSE apc' = "update" /\ aresp' = NoResp
        /\ UNCHANGED <<dbvars, svcLog, timers, areq, msgvars, warnings>>

\* UPDATE accounts SET status = "connecting", qr_code = NULL,
\* last_connected = NULL WHERE id = ?
ClearForFreshStart(id) ==
    [i \in DOMAIN accounts |->
        IF i = id
        THEN [accounts[i] EXCEPT !.status = "connecting", !.qr_code = "NULL",
                                 !.last_connected = "NULL"]
        ELSE accounts[i]]

\* the UPDATE settles: 500, or the activity INSERT is issued
FreshUpdateSettles ==
    \E rejects \in BOOLEAN :
        /\ areq.route = "fresh-connect"
        /\ apc = "update"
        /\ dbCalls' = dbCalls + 1
        /\ IF rejects
           THEN apc' = "done" /\ aresp' = ErrResp(500, "query failed")
                /\ UNCHANGED accounts
           ELSE apc' = "log" /\ aresp' = NoResp
                /\ accounts' = ClearForFreshStart(areq.id)
        /\ UNCHANGED <<activity_logs, messages, svcLog, timers, areq, msgvars, warnings>>

\* faulty variant: setTimeout is placed before the activity INSERT
FreshLogSettles_TimerFirst ==
    \E rejects \in BOOLEAN :
        /\ areq.route = "fresh-connect"
        /\ apc = "log"
        /\ dbCalls' = dbCalls + 1
        /\ apc' = "done"
        /\ timers' = Append(timers, areq.id)
        /\ IF rejects
           THEN aresp' = ErrResp(500, "query failed")
                /\ UNCHANGED activity_logs
           ELSE /\ aresp' = [NoResp EXCEPT !.status = 200]
                /\ activity_logs' =
                     Append(activity_logs, ActivityRow(areq.id, "fresh_reconnect"))
        /\ UNCHANGED <<accounts, messages, svcLog, areq, msgvars, warnings>>

\* the activity INSERT settles: 500, or the connect is scheduled with
\* setTimeout and the request answered
FreshLogSettles ==
    \E rejects \in BOOLEAN :
        /\ areq.route = "fresh-connect"
        /\ apc = "log"
        /\ dbCalls' = dbCalls + 1
        /\ apc' = "done"
        /\ IF rejects
           THEN aresp' = ErrResp(500, "query failed")
                /\ UNCHANGED <<activity_logs, timers>>
           ELSE /\ aresp' = [NoResp EXCEPT !.status = 200]
                /\ activity_logs' =
                     Append(activity_logs, ActivityRow(areq.id, "fresh_reconnect"))
                /\ timers' = Append(timers, areq.id)
        /\ UNCHANGED <<accounts, messages, svcLog, areq, msgvars, warnings>>

\* the setTimeout callback runs: connectAccount is called (its outcome is
\* only logged)
TimerFires ==
    /\ timers # <<>>
    /\ svcLog' = Append(svcLog, SvcCall("connectAccount", Head(timers), "", <<>>))
    /\ timers' = Tail(timers)
    /\ UNCHANGED <<dbvars, areq, apc, aresp, msgvars, warnings>>

----------------------------------------------------------------------------
(* POST /accounts/:id/connect *)

ConnectRequests == {AccountRequest("connect", i, "", "") : i \in {1, 2}}

\* the request arrives: SELECT * FROM accounts WHERE id = ? is issued
ReceiveConnect ==
    /\ apc = "idle"
    /\ \E req \in ConnectRequests :
        /\ areq' = req
        /\ apc' = "select"
        /\ UNCHANGED <<dbvars, svcLog, timers, aresp, msgvars, warnings>>

\* faulty variant: connectAccount is called without looking at the rows
ConnectSelectSettles_NoCheck ==
    \E rejects \in BOOLEAN :
        /\ areq.route = "connect"
        /\ apc = "select"
        /\ dbCalls' = dbCalls + 1
        /\ IF rejects
           THEN apc' = "done" /\ aresp' = ErrResp(500, "query failed") /\ UNCHANGED svcLog
           ELSE /\ apc' = "connect" /\ aresp' = NoResp
                /\ svcLog' = Append(svcLog, SvcCall("connectAccount", areq.id, "", <<>>))
        /\ UNCHANGED <<tables, timers, areq, msgvars, warnings>>

\* the SELECT settles: 500, 404 without a row, or connectAccount is called
ConnectSelectSettles ==
    \E rejects \in BOOLEAN :
        /\ areq.route = "connect"
        /\ apc = "select"
        /\ dbCalls' = dbCalls + 1
        /\ IF rejects
           THEN apc' = "done" /\ aresp' = ErrResp(500, "query failed") /\ UNCHANGED svcLog
           ELSE IF areq.id \notin DOMAIN accounts
           THEN apc' = "done" /\ aresp' = ErrResp(404, "Account not found")
                /\ UNCHANGED svcLog
           ELSE /\ apc' = "connect" /\ aresp' = NoResp
                /\ svcLog' = Append(svcLog, SvcCall("connectAccount", areq.id, "", <<>>))
        /\ UNCHANGED <<tables, timers, areq, msgvars, warnings>>

\* connectAccount settles: 500 when it rejects, else 200
ConnectSettles ==
    \E rejects \in BOOLEAN :
        /\ areq.route = "connect"
        /\ apc = "connect"
        /\ apc' = "done"
        /\ aresp' = IF rejects THEN ErrResp(500, "connectAccount failed")
                    ELSE [NoResp EXCEPT !.status = 200]
        /\ UNCHANGED <<dbvars, svcLog, timers, areq, msgvars, warnings>>

----------------------------------------------------------------------------
(* POST /accounts/:id/force-reconnect *)

ForceRequests == {AccountRequest("force-reconnect", i, "", "") : i \in {1, 2}}

\* the request arrives: SELECT * FROM accounts WHERE id = ? is issued
ReceiveForce ==
    /\ apc = "idle"
    /\ \E req \in ForceRequests :
        /\ areq' = req
        /\ apc' = "select"
        /\ UNCHANGED <<dbvars, svcLog, timers, aresp, msgvars, warnings>>

\* the SELECT settles: 500, 404 without a row, or the activity INSERT is issued
ForceSelectSettles ==
    \E rejects \in BOOLEAN :
        /\ areq.route = "force-reconnect"
        /\ apc = "select"
        /\ dbCalls' = dbCalls + 1
        /\ IF rejects
           THEN apc' = "done" /\ aresp' = ErrResp(500, "Force reconnection failed")
           ELSE IF areq.id \notin DOMAIN accounts
           THEN apc' = "done" /\ aresp' = ErrResp(404, "Account not found")
           ELSE apc' = "log" /\ aresp' = NoResp
        /\ UNCHANGED <<tables, svcLog, timers, areq, msgvars, warnings>>

\* the activity INSERT settles: 500, or forceReconnectAccount is called
ForceLogSettles ==
    \E rejects \in BOOLEAN :
        /\ areq.route = "force-reconnect"
        /\ apc = "log"
        /\ dbCalls' = dbCalls + 1
        /\ IF rejects
           THEN /\ apc' = "done" /\ aresp' = ErrResp(500, "Force reconnection failed")
                /\ UNCHANGED <<activity_logs, svcLog>>
           ELSE /\ apc' = "reconnect" /\ aresp' = NoResp
                /\ activity_logs' =
                     Append(activity_logs, ActivityRow(areq.id, "force_reconnect"))
                /\ svcLog' =
                     Append(svcLog, SvcCall("forceReconnectAccount", areq.id, "", <<>>))
        /\ UNCHANGED <<accounts, messages, timers, areq, msgvars, warnings>>

\* forceReconnectAccount settles: 500 when it rejects, else 200
ForceReconnectSettles ==
    \E rejects \in BOOLEAN :
        /\ areq.route = "force-reconnect"
        /\ apc = "reconnect"
        /\ apc' = "done"
        /\ aresp' = IF rejects THEN ErrResp(500, "Force reconnection failed")
                    ELSE [NoResp EXCEPT !.status = 200]
        /\ UNCHANGED <<dbvars, svcLog, timers, areq, msgvars, warnings>>

----------------------------------------------------------------------------
(* POST /accounts/:id/disconnect *)

DisconnectRequests == {AccountRequest("disconnect", i, "", "") : i \in {1, 2}}

\* the request arrives: disconnectAccount is called, whether or not the id
\* has a row
ReceiveDisconnect ==
    /\ apc = "idle"
    /\ \E req \in DisconnectRequests :
        /\ areq' = req
        /\ apc' = "disconnect"
        /\ svcLog' = Append(svcLog, SvcCall("disconnectAccount", req.id, "", <<>>))
        /\ UNCHANGED <<dbvars, timers, aresp, msgvars, warnings>>

\* disconnectAccount settles: 500 when it rejects, else 200
DisconnectSettles ==
    \E rejects \in BOOLEAN :
        /\ areq.route = "disconnect"
        /\ apc = "disconnect"
        /\ apc' = "done"
        /\ aresp' = IF rejects THEN ErrResp(500, "disconnectAccount failed")
                    ELSE [NoResp EXCEPT !.status = 200]
        /\ UNCHANGED <<dbvars, svcLog, timers, areq, msgvars, warnings>>

----------------------------------------------------------------------------
(* DELETE /accounts/:id *)

DeleteRequests == {AccountRequest("delete", i, "", "") : i \in {1, 2}}

\* DELETE FROM accounts WHERE id = ?
DeleteAccount(id) == [i \in DOMAIN accounts \ {id} |-> accounts[i]]

\* result.affectedRows of that DELETE
AffectedRows(id) == IF id \in DOMAIN accounts THEN 1 ELSE 0

\* the request arrives: disconnectAccount is called first
ReceiveDelete ==
    /\ apc = "idle"
    /\ \E req \in DeleteRequests :
        /\ areq' = req
        /\ apc' = "disconnect"
        /\ svcLog' = Append(svcLog, SvcCall("disconnectAccount", req.id, "", <<>>))
        /\ UNCHANGED <<dbvars, timers, aresp, msgvars, warnings>>

\* faulty variant: a rejecting disconnectAccount reaches the outer catch
DeleteDisconnectSettles_NoInnerCatch ==
    \E rejects \in BOOLEAN :
        /\ areq.route = "delete"
        /\ apc = "disconnect"
        /\ IF rejects
           THEN apc' = "done" /\ aresp' = ErrResp(500, "disconnectAccount failed")
           ELSE apc' = "delete" /\ aresp' = NoResp
        /\ UNCHANGED <<dbvars, svcLog, timers, areq, msgvars, warnings>>

\* disconnectAccount settles: a rejection is only warned about, and the
\* DELETE is issued either way
DeleteDisconnectSettles ==
    \E rejects \in BOOLEAN :
        /\ areq.route = "delete"
        /\ apc = "disconnect"
        /\ apc' = "delete"
        /\ warnings' = IF rejects
                       THEN Append(warnings, "Error disconnecting account during deletion")
                       ELSE warnings
        /\ UNCHANGED <<dbvars, svcLog, timers, areq, aresp, msgvars>>

\* the DELETE settles: 500, 404 when it affected no row, else 200 (the
\* cascade to related records is left to a schema that is not part of the
\* router)
DeleteSettles ==
    \E rejects \in BOOLEAN :
        /\ areq.route = "delete"
        /\ apc = "delete"
        /\ dbCalls' = dbCalls + 1
        /\ apc' = "done"
        /\ IF rejects
           THEN aresp' = ErrResp(500, "query failed") /\ UNCHANGED accounts
           ELSE /\ accounts' = DeleteAccount(areq.id)
                /\ aresp' = IF AffectedRows(areq.id) = 0
                            THEN ErrResp(404, "Account not found")
                            ELSE [NoResp EXCEPT !.status = 200]
        /\ UNCHANGED <<activity_logs, messages, svcLog, timers, areq, msgvars, warnings>>

----------------------------------------------------------------------------
(* Specification of the accounts router: one request, any accounts table *)

InitAccounts ==
    /\ accounts \in AccountTables
    /\ activity_logs = <<>>
    /\ messages = <<>>
    /\ dbCalls = 0
    /\ InitIdle
    /\ sendThrows = {}
    /\ insertThrows = {}

NextAccounts ==
    \/ ReceiveCreate
    \/ CreateLookupSettles
    \/ CreateInsertSettles
    \/ CreateLogSettles
    \/ ReceiveFresh
    \/ FreshSelectSettles
    \/ FreshDisconnectSettles
    \/ FreshUpdateSettles
    \/ FreshLogSettles
    \/ TimerFires
    \/ ReceiveConnect
    \/ ConnectSelectSettles
    \/ ConnectSettles
    \/ ReceiveForce
    \/ ForceSelectSettles
    \/ ForceLogSettles
    \/ ForceReconnectSettles
    \/ ReceiveDisconnect
    \/ DisconnectSettles
    \/ ReceiveDelete
    \/ DeleteDisconnectSettles
    \/ DeleteSettles

SpecAccounts == InitAccounts /\ [][NextAccounts]_vars

----------------------------------------------------------------------------
(* Properties of the accounts router *)

IsCreate == areq.route = "create" /\ apc # "idle"

\* the phone of the request belongs to a row other than the one it inserted
DuplicatePhone ==
    /\ areq.phone # ""
    /\ \E i \in DOMAIN accounts : i # areq.id /\ accounts[i].phone = areq.phone

\* the request has inserted no accounts row and no activity log row
NothingInserted ==
    /\ areq.id = 0
    /\ \A i \in DOMAIN accounts : accounts[i].name = "acc"
    /\ activity_logs = <<>>

\* C8 (as claimed): a phone that already belongs to a row gives 400 'Phone
\* number already exists' and no insert; a missing name gives 400 before any
\* database access
C8_Original ==
    IsCreate =>
        /\ DuplicatePhone =>
              /\ NothingInserted
              /\ apc = "done" =>
                    (aresp.status = 400 /\ aresp.error = "Phone number already exists")
        /\ areq.name = "" =>
              (apc = "done" /\ aresp.status = 400 /\ dbCalls = 0 /\ NothingInserted)

\* C8 (amended): with a name, a phone that already belongs to a row gives no
\* insert and the answer 400 'Phone number already exists', or 500 when the
\* lookup itself fails; a missing name gives 400 'Name is required' before
\* any database access
C8_DuplicatePhoneRejected ==
    IsCreate =>
        /\ (areq.name # "" /\ DuplicatePhone) =>
              /\ NothingInserted
              /\ apc = "done" =>
                    /\ dbCalls = 1
                    /\ \/ aresp.status = 400 /\ aresp.error = "Phone number already exists"
                       \/ aresp.status = 500 /\ aresp.error = "query failed"
        /\ areq.name = "" =>
              /\ apc = "done"
              /\ aresp.status = 400
              /\ aresp.error = "Name is required"
              /\ dbCalls = 0
              /\ NothingInserted

\* C8 witness: a named request with the phone of row 1 was refused by the lookup
C8_Witness ==
    /\ IsCreate /\ apc = "done"
    /\ areq.name # "" /\ DuplicatePhone
    /\ aresp.status = 400
    /\ aresp.error = "Phone number already exists"
    /\ dbCalls = 1

IsFresh == areq.route = "fresh-connect"

\* the row of the request's id still has its qr_code and last_connected
RowUnchanged ==
    areq.id \in DOMAIN accounts =>
        /\ accounts[areq.id].qr_code = "qr"
        /\ accounts[areq.id].last_connected = "t0"

\* the row of the request's id is 'connecting' with qr_code and last_connected NULL
RowCleared ==
    /\ areq.id \in DOMAIN accounts
    /\ accounts[areq.id].status = "connecting"
    /\ accounts[areq.id].qr_code = "NULL"
    /\ accounts[areq.id].last_connected = "NULL"

DisconnectCall == SvcCall("disconnectAccount", areq.id, "", <<>>)
ConnectCall == SvcCall("connectAccount", areq.id, "", <<>>)

\* C10: fresh-connect goes disconnectAccount, then the UPDATE, then the
\* 'fresh_reconnect' log, then connectAccount, once, from the timer, and only
\* for a request answered 200; when disconnectAccount throws the row is
\* unchanged, nothing is logged, nothing scheduled, and the answer is 500
C10_FreshConnectOrder ==
    IsFresh =>
        /\ apc = "select" =>
              (svcLog = <<>> /\ RowUnchanged /\ activity_logs = <<>> /\ timers = <<>>)
        /\ apc \in {"disconnect", "update"} =>
              /\ svcLog = <<DisconnectCall>>
              /\ RowUnchanged /\ activity_logs = <<>> /\ timers = <<>>
        /\ apc = "log" =>
              /\ svcLog = <<DisconnectCall>>
              /\ RowCleared /\ activity_logs = <<>> /\ timers = <<>>
        /\ (apc = "done" /\ aresp.status = 200) =>
              /\ RowCleared
              /\ activity_logs = <<ActivityRow(areq.id, "fresh_reconnect")>>
              /\ \/ timers = <<areq.id>> /\ svcLog = <<DisconnectCall>>
                 \/ timers = <<>> /\ svcLog = <<DisconnectCall, ConnectCall>>
        /\ (apc = "done" /\ aresp.status # 200) =>
              /\ timers = <<>>
              /\ \A k \in 1..Len(svcLog) : svcLog[k].op # "connectAccount"
              /\ activity_logs = <<>>
        /\ (apc = "done" /\ aresp.error = "disconnectAccount failed") =>
              /\ aresp.status = 500
              /\ svcLog = <<DisconnectCall>>
              /\ RowUnchanged

\* C10 witness: an accepted fresh-connect whose timer has called connectAccount
C10_Witness ==
    /\ IsFresh /\ apc = "done" /\ aresp.status = 200
    /\ timers = <<>>
    /\ svcLog = <<DisconnectCall, ConnectCall>>
    /\ RowCleared

\* connect, fresh-connect or force-reconnect is being handled
IsByIdLookup == areq.route \in {"connect", "fresh-connect", "force-reconnect"}

\* the accounts table has no row with the request's id
NoSuchRow == areq.id \notin DOMAIN accounts

\* this step touches no table, no file, no timer and calls no service operation
NothingElseChanges ==
    /\ accounts' = accounts
    /\ activity_logs' = activity_logs
    /\ messages' = messages
    /\ svcLog' = svcLog
    /\ timers' = timers
    /\ warnings' = warnings
    /\ files' = files

\* C11 (as claimed): connect, fresh-connect and force-reconnect on an id
\* without a row answer 404 'Account not found', call no service operation,
\* write no activity log row and modify no account row
C11_Original ==
    [][(IsByIdLookup /\ NoSuchRow)' =>
          /\ NothingElseChanges
          /\ apc' = "done" =>
                (aresp'.status = 404 /\ aresp'.error = "Account not found")]_vars

\* C11 (amended): on an id without a row the three routes call no service
\* operation, write no activity log row and modify no account row, and they
\* answer 404 'Account not found' after the one SELECT, or 500 when that
\* SELECT itself fails
C11_NoRowNoEffect ==
    [][(IsByIdLookup /\ NoSuchRow)' =>
          /\ NothingElseChanges
          /\ apc' = "done" =>
                /\ dbCalls' = 1
                /\ \/ aresp'.status = 404 /\ aresp'.error = "Account not found"
                   \/ aresp'.status = 500]_vars

\* C11 witness: force-reconnect on an id without a row was answered 404, with
\* other rows in the table
C11_Witness ==
    /\ areq.route = "force-reconnect" /\ NoSuchRow
    /\ DOMAIN accounts # {}
    /\ apc = "done"
    /\ aresp.status = 404
    /\ aresp.error = "Account not found"
    /\ svcLog = <<>> /\ activity_logs = <<>>

IsDelete == areq.route = "delete"

\* this step sends the response of the request
Responds == apc # "done" /\ apc' = "done"

\* this step removes no row of the accounts table
NoRowDeleted == DOMAIN accounts' = DOMAIN accounts

\* this step removes the row of the request's id and no other
RowDeleted ==
    /\ areq.id \in DOMAIN accounts
    /\ DOMAIN accounts' = DOMAIN accounts \ {areq.id}
    /\ \A i \in DOMAIN accounts' : accounts'[i] = accounts[i]

\* disconnectAccount was called first and has settled, whatever its outcome,
\* before the one DELETE runs; a response other than 500 leaves no row
DeleteOrder ==
    IsDelete =>
        /\ svcLog = <<DisconnectCall>>
        /\ apc = "disconnect" => (dbCalls = 0 /\ aresp.status = 0)
        /\ apc = "delete" => (dbCalls = 0 /\ aresp.status = 0)
        /\ apc = "done" =>
              /\ dbCalls = 1
              /\ aresp.status \in {200, 404, 500}
              /\ aresp.status = 500 => aresp.error = "query failed"
              /\ aresp.status # 500 => areq.id \notin DOMAIN accounts

\* C12 (as claimed): DELETE /accounts/:id calls disconnectAccount before the
\* DELETE, whose failure does not prevent the deletion; the response is 404
\* exactly when no row was deleted, and after a non-500 response the id has
\* no row
C12_Original ==
    [][/\ DeleteOrder'
       /\ (IsDelete /\ Responds) =>
             /\ NoRowDeleted \/ RowDeleted
             /\ aresp'.status = 404 <=> NoRowDeleted]_vars

\* C12 (amended): as claimed, except that the response is 404 exactly when
\* the DELETE ran and removed no row; when the DELETE itself fails no row is
\* removed and the response is 500
C12_DeleteAfterDisconnect ==
    [][/\ DeleteOrder'
       /\ (IsDelete /\ Responds) =>
             /\ NoRowDeleted \/ RowDeleted
             /\ aresp'.status = 200 <=> RowDeleted
             /\ aresp'.status = 404 <=> (NoRowDeleted /\ aresp'.status # 500)
             /\ aresp'.status = 500 => NoRowDeleted]_vars

\* C12 witness: disconnectAccount failed, and row 1 of two was deleted and the
\* request answered 200
C12_Witness ==
    /\ IsDelete /\ apc = "done"
    /\ areq.id = 1
    /\ aresp.status = 200
    /\ DOMAIN accounts = {2}
    /\ svcLog = <<DisconnectCall>>
    /\ warnings # <<>>
    /\ dbCalls = 1

----------------------------------------------------------------------------
(* POST /contacts/bulk *)

\* entries of the contacts array, by name: a full entry, a full entry whose
\* phone is written with a sign, an entry without name, one without phone, and
\* a JSON null
ContactEntries == {"c_ok", "c_signed", "c_noname", "c_nophone", "c_null"}

\* contact.name; "" stands for a missing (falsy) field
ContactName(c) == IF c = "c_noname" THEN "" ELSE "ann"

\* contact.phone, as the name of a number; "" stands for a missing field
ContactPhone(c) ==
    CASE c = "c_nophone" -> ""
      [] c = "c_signed"  -> "pplus"
      [] OTHER           -> "p10"

\* const { name, phone, group_name } = contact throws for null
DestructureThrows(c) == c = "c_null"

\* phone.toString().replace(/\D/g, '')
CleanPhone(phone) == SelectSeq(PhoneChars(phone), LAMBDA ch : ch \in DigitChars)

ContactRow(c) ==
    [name |-> ContactName(c), phone |-> CleanPhone(ContactPhone(c)),
     group_name |-> "NULL"]

RECURSIVE ContactListsUpTo(_)
ContactListsUpTo(n) ==
    IF n = 0 THEN {<<>>}
    ELSE LET shorter == ContactListsUpTo(n - 1) IN
         shorter \cup {Append(l, c) : l \in {x \in shorter : Len(x) = n - 1},
                                      c \in ContactEntries}

\* arrays with more failing entries than error messages are returned
LongContactLists == {Rep(c, MaxErrors + 1) : c \in {"c_ok", "c_noname"}}

\* req.body.contacts: undefined, a non-array, or an array
ContactsBodies ==
    {[kind |-> k, list |-> <<>>] : k \in {"undefined", "nonarray"}}
        \cup {[kind |-> "array", list |-> l] :
                 l \in ContactListsUpTo(MaxLen) \cup LongContactLists}

\* errors.slice(0, 10)
Slice(s, n) == SubSeq(s, 1, IF Len(s) < n THEN Len(s) ELSE n)

\* the request arrives: 400 unless contacts is a non-empty array, else the
\* loop starts
ReceiveContactsBulk ==
    /\ cpc = "idle"
    /\ \E body \in ContactsBodies :
        /\ creq' = body
        /\ IF body.kind # "array" \/ Len(body.list) = 0
           THEN /\ cpc' = "done"
                /\ cresp' = [NoContactsResp EXCEPT !.status = 400,
                                                   !.error = "Contacts array is required"]
           ELSE cpc' = "loop" /\ cresp' = NoContactsResp
        /\ UNCHANGED <<contacts, cidx, successCount, errorCount, errors>>
        /\ UNCHANGED <<dbvars, svcLog, mstate, astate>>

\* one iteration up to its await: a null entry throws in the try and again in
\* the catch, which reads contact.name, and the outer catch answers 500; an
\* entry without name or phone is counted as an error; else the INSERT is
\* issued
ContactStep ==
    /\ cpc = "loop"
    /\ cidx <= Len(creq.list)
    /\ LET c == creq.list[cidx] IN
        IF DestructureThrows(c)
        THEN /\ cpc' = "done"
             /\ cresp' = [NoContactsResp EXCEPT !.status = 500,
                                                !.error = "Cannot read properties of null"]
             /\ UNCHANGED <<cidx, errorCount, errors>>
        ELSE IF ContactName(c) = "" \/ ContactPhone(c) = ""
        THEN /\ errors' = Append(errors, [text |-> "Contact missing name or phone",
                                          contact |-> c])
             /\ errorCount' = errorCount + 1
             /\ cidx' = cidx + 1
             /\ UNCHANGED <<cpc, cresp>>
        ELSE /\ cpc' = "insert"
             /\ UNCHANGED <<cidx, errorCount, errors, cresp>>
    /\ UNCHANGED <<contacts, creq, successCount>>
    /\ UNCHANGED <<dbvars, svcLog, mstate, astate>>

\* the INSERT INTO contacts settles: a rejection is counted as an error, else
\* the row is there and the entry counted as a success; the loop goes on
ContactInsertSettles ==
    \E rejects \in BOOLEAN :
        /\ cpc = "insert"
        /\ dbCalls' = dbCalls + 1
        /\ IF rejects
           THEN /\ errors' = Append(errors, [text |-> "Error adding contact",
                                             contact |-> creq.list[cidx]])
                /\ errorCount' = errorCount + 1
                /\ UNCHANGED <<contacts, successCount>>
           ELSE /\ contacts' = Append(contacts, ContactRow(creq.list[cidx]))
                /\ successCount' = successCount + 1
                /\ UNCHANGED <<errorCount, errors>>
        /\ cidx' = cidx + 1
        /\ cpc' = "loop"
        /\ UNCHANGED <<creq, cresp>>
        /\ UNCHANGED <<tables, svcLog, mstate, astate>>

\* after the last entry: the counts and the first ten error messages
ContactsRespond ==
    /\ cpc = "loop"
    /\ cidx > Len(creq.list)
    /\ cpc' = "done"
    /\ cresp' = [NoContactsResp EXCEPT !.status = 200,
                                       !.success_count = successCount,
                                       !.error_count = errorCount,
                                       !.errors = Slice(errors, MaxErrors)]
    /\ UNCHANGED <<contacts, creq, cidx, successCount, errorCount, errors>>
    /\ UNCHANGED <<dbvars, svcLog, mstate, astate>>

----------------------------------------------------------------------------
(* Specification of /contacts/bulk: one request, any INSERT outcomes *)

InitContacts ==
    /\ InitTables
    /\ InitIdle
    /\ sendThrows = {}
    /\ insertThrows = {}

NextContacts ==
    \/ ReceiveContactsBulk
    \/ ContactStep
    \/ ContactInsertSettles
    \/ ContactsRespond

SpecContacts == InitContacts /\ [][NextContacts]_vars

----------------------------------------------------------------------------
(* Properties of /contacts/bulk *)

\* a request whose contacts field is a non-empty array
IsContactsBulk == cpc # "idle" /\ creq.kind = "array" /\ Len(creq.list) > 0

\* the entries of the array that have a name and a phone
FullIdx == {i \in 1..Len(creq.list) :
               creq.list[i] # "c_null"
               /\ ContactName(creq.list[i]) # "" /\ ContactPhone(creq.list[i]) # ""}

Min(a, b) == IF a < b THEN a ELSE b

\* C13: a /contacts/bulk request with a non-empty array is answered with
\* success_count + error_count = number of entries; only entries with a name
\* and a phone whose INSERT succeeded are successes; every such entry gets
\* its INSERT whatever happened to earlier entries; the contacts table holds
\* success_count rows; at most 10 error messages are returned
C13_BulkCounts ==
    (IsContactsBulk /\ cpc = "done") =>
        /\ cresp.status = 200
        /\ cresp.success_count + cresp.error_count = Len(creq.list)
        /\ dbCalls = Cardinality(FullIdx)
        /\ cresp.success_count <= Cardinality(FullIdx)
        /\ cresp.error_count >= Len(creq.list) - Cardinality(FullIdx)
        /\ Len(contacts) = cresp.success_count
        /\ \A k \in 1..Len(contacts) : contacts[k].name # ""
        /\ Len(cresp.errors) = Min(cresp.error_count, MaxErrors)
        /\ Len(cresp.errors) <= 10

\* the same for arrays without a null entry
C13_WithoutNull ==
    (\A i \in 1..Len(creq.list) : creq.list[i] # "c_null") => C13_BulkCounts

----------------------------------------------------------------------------
(* Specification of /send and /send-media with a concurrent request of the *)
(* accounts router: the two handlers interleave at their awaits            *)

InitConcurrent == InitSend

NextConcurrent ==
    \/ NextSend
    \/ ReceiveFresh
    \/ FreshSelectSettles
    \/ FreshDisconnectSettles
    \/ FreshUpdateSettles
    \/ FreshLogSettles
    \/ TimerFires
    \/ ReceiveForce
    \/ ForceSelectSettles
    \/ ForceLogSettles
    \/ ForceReconnectSettles
    \/ ReceiveDisconnect
    \/ DisconnectSettles
    \/ ReceiveDelete
    \/ DeleteDisconnectSettles
    \/ DeleteSettles

SpecConcurrent == InitConcurrent /\ [][NextConcurrent]_vars

----------------------------------------------------------------------------
(* Properties of the concurrent specification *)

SendOps == {"sendTextMessage", "sendMediaMessage"}

\* this step calls a send operation of the service
SendInvoked ==
    /\ Len(svcLog') = Len(svcLog) + 1
    /\ svcLog'[Len(svcLog')].op \in SendOps

\* the row of that call's account is 'connected'
ConnectedNow ==
    LET id == svcLog'[Len(svcLog')].account IN
    /\ id \in DOMAIN accounts
    /\ accounts[id].status = "connected"
    /\ accounts' = accounts

\* C14: whenever /send or /send-media calls a send operation of the service,
\* the account's row is 'connected' at that moment, whatever a concurrent
\* disconnect, fresh-connect, force-reconnect or delete request has done
C14_ConnectedAtSend == [][SendInvoked => ConnectedNow]_vars

====
